---- MODULE Spec2Model ----
(***************************************************************************)
(* Private Contact Discovery (giwaov/private-contact-discovery-arcium).    *)
(*                                                                         *)
(* Four state machines share this module:                                  *)
(*   SpecMatch   - the 32x32 comparison loop of the submit_and_match       *)
(*                 circuit, one pairwise evaluation per step;              *)
(*   SpecSession - the ledger record and the SessionState held by the      *)
(*                 compute network, driven by the protocol operations;     *)
(*   SpecClient  - the browser client's create/join handlers               *)
(*                 (SpecClientLive: with every awaited promise settling);  *)
(*   SpecUtils   - the client's utility functions, one call per step.      *)
(***************************************************************************)
EXTENDS Integers, Sequences, FiniteSets, TLC

VARIABLES
    inA,        \* state.alice_hashes as read by the comparison loop
    inB,        \* bob.hashes as read by the comparison loop
    loop,       \* the loop's locals: i, j, alice_matches, bob_matches, match_count
    session,    \* the DiscoverySession ledger record
    state,      \* the SessionState held by the compute network
    queue,      \* computations queued on the compute network, oldest first
    output,     \* the last computation output delivered to a party
    lastOp,     \* the last operation attempted and how it ended
    matchRuns,  \* how many times the comparison loop has run for the session
    ui,         \* the page's React state
    task,       \* the create/join handler in flight, suspended at an await
    timers,     \* pending setTimeout callbacks of the join handler's demo path
    failedJoin, \* createCipher failed inside the join that made currentSession
    failedCreate, \* createCipher failed inside the create that made currentSession
    call        \* the last call of a client utility function: its input and output

loopVars == <<inA, inB, loop>>
sessionVars == <<session, state, queue, output, lastOp, matchRuns>>

clientVars == <<ui, task, timers, failedJoin, failedCreate>>
utilVars == <<call>>

vars == <<inA, inB, loop, session, state, queue, output, lastOp, matchRuns,
          ui, task, timers, failedJoin, failedCreate, call>>

(***************************************************************************)
(* Program constants and bounds.                                           *)
(***************************************************************************)
NUM_SLOTS == 32          \* [u128; 32]
MaxVal == 2              \* fingerprints of the sparse inputs range over 0..MaxVal
MaxQueue == 1            \* computations in flight at once
MaxTimers == 1           \* demo timers pending at once

Slots == 0 .. (NUM_SLOTS - 1)
ZeroSlots == [k \in Slots |-> 0]

(***************************************************************************)
(* Inputs of the comparison loop: every array whose populated slots lie    *)
(* in a fixed pair of positions (different for the two parties, so that a  *)
(* match joins different indices), plus one array with all 32 slots        *)
(* populated (in opposite slot order for the two parties).                 *)
(***************************************************************************)
APos == {0, 31}
BPos == {0, 5}
SparseArrays(P) ==
    { [k \in Slots |-> IF k \in P THEN f[k] ELSE 0] : f \in [P -> 0 .. MaxVal] }
FullA == [k \in Slots |-> k + 1]
FullB == [k \in Slots |-> NUM_SLOTS - k]
AInputs == SparseArrays(APos) \cup {FullA}
BInputs == SparseArrays(BPos) \cup {FullB}

(***************************************************************************)
(* submit_and_match: the comparison loop.                                  *)
(***************************************************************************)
IsMatchNoSentinel(a, b, i, j) == a[i] = b[j]

IsMatch(a, b, i, j) == a[i] # 0 /\ b[j] # 0 /\ a[i] = b[j]

SelectOverwrite(c, x, y) == IF c THEN x ELSE 0

\* if is_match { x } else { y }: both operands are evaluated, c selects.
Select(c, x, y) == IF c THEN x ELSE y

\* The loop body with bob_matches indexed by the outer index.
PairStepSwapIdx(acc, a, b, i, j) ==
    LET is_match == IsMatch(a, b, i, j) IN
    [ alice_matches |->
          [acc.alice_matches EXCEPT ![i] = Select(is_match, a[i], @)],
      bob_matches |->
          [acc.bob_matches EXCEPT ![i] = Select(is_match, b[j], @)],
      match_count |->
          Select(is_match, acc.match_count + 1, acc.match_count) ]

\* The loop body counting matched slots of A instead of matching pairs.
PairStepCountSlots(acc, a, b, i, j) ==
    LET is_match == IsMatch(a, b, i, j) IN
    [ alice_matches |->
          [acc.alice_matches EXCEPT ![i] = Select(is_match, a[i], @)],
      bob_matches |->
          [acc.bob_matches EXCEPT ![j] = Select(is_match, b[j], @)],
      match_count |->
          Select(is_match /\ acc.alice_matches[i] = 0,
                 acc.match_count + 1, acc.match_count) ]

\* One execution of the inner loop body for the pair (i, j).
PairStep(acc, a, b, i, j) ==
    LET is_match == IsMatch(a, b, i, j) IN
    [ alice_matches |->
          [acc.alice_matches EXCEPT ![i] = Select(is_match, a[i], @)],
      bob_matches |->
          [acc.bob_matches EXCEPT ![j] = Select(is_match, b[j], @)],
      \* u32; at most 32 * 32 increments, so it never wraps
      match_count |->
          Select(is_match, acc.match_count + 1, acc.match_count) ]

LoopStart == [ alice_matches |-> ZeroSlots, bob_matches |-> ZeroSlots, match_count |-> 0 ]

\* Loop control skipping the rows of empty slots: a data-dependent shortcut.
AdvanceSkipEmpty(i, j, a, b) ==
    IF j < NUM_SLOTS - 1 /\ a[i] # 0 THEN [i |-> i, j |-> j + 1, pc |-> "run"]
    ELSE IF i < NUM_SLOTS - 1 THEN [i |-> i + 1, j |-> 0, pc |-> "run"]
    ELSE [i |-> i, j |-> j, pc |-> "done"]

\* for i in 0..32 { for j in 0..32 { ... } }: the successor of (i, j).
Advance(i, j, a, b) ==
    IF j < NUM_SLOTS - 1 THEN [i |-> i, j |-> j + 1, pc |-> "run"]
    ELSE IF i < NUM_SLOTS - 1 THEN [i |-> i + 1, j |-> 0, pc |-> "run"]
    ELSE [i |-> i, j |-> j, pc |-> "done"]

\* for j in 0..32 { body }: the inner loop for row i, from column j on.
\* (The test on nxt makes TLC compute each accumulator before the next
\* iteration instead of nesting 1024 unevaluated loop bodies.)
RECURSIVE RunRow(_, _, _, _, _)
RunRow(acc, a, b, i, j) ==
    IF j = NUM_SLOTS THEN acc
    ELSE LET nxt == PairStep(acc, a, b, i, j) IN
         IF nxt.match_count >= 0 THEN RunRow(nxt, a, b, i, j + 1) ELSE acc

\* for i in 0..32 { inner loop }: the outer loop, from row i on.
RECURSIVE RunRows(_, _, _, _)
RunRows(acc, a, b, i) ==
    IF i = NUM_SLOTS THEN acc
    ELSE LET nxt == RunRow(acc, a, b, i, 0) IN
         IF nxt.match_count >= 0 THEN RunRows(nxt, a, b, i + 1) ELSE acc

\* The whole loop, as the circuit runs it inside one computation.
MatchLoop(a, b) == RunRows(LoopStart, a, b, 0)

(***************************************************************************)
(* The session: ledger record, SessionState and the four circuits.         *)
(***************************************************************************)
Parties == {"alice", "bob", "mallory"}
NoParty == "none"                       \* a zero-filled identity

\* Ledger status codes.
AwaitingAlice == 0
AwaitingBob == 1
ComputingSwapped == AwaitingAlice
Computing == 2
Matched == 3

\* The record before create_session: no account at the session's address.
NoSession ==
    [ exists |-> FALSE, alice |-> NoParty, bob |-> NoParty, status |-> AwaitingAlice ]

\* init_session: SessionState { /* zeros */ }
ZeroState ==
    [ alice_hashes |-> ZeroSlots, alice_count |-> 0,
      bob_hashes |-> ZeroSlots, bob_count |-> 0,
      alice_submitted |-> 0, bob_submitted |-> 0, is_matched |-> 0,
      result_alice |-> ZeroSlots, result_bob |-> ZeroSlots, result_count |-> 0 ]

\* A ContactList holding the fingerprints of S in ascending order, zero-padded.
ContactListOf(S) ==
    [ hashes |-> [k \in Slots |->
                     IF k < Cardinality(S)
                     THEN CHOOSE v \in S : Cardinality({w \in S : w < v}) = k
                     ELSE 0],
      count |-> Cardinality(S) ]
\* The contact lists the parties submit in a session.
SessionLists == { ContactListOf(S) : S \in SUBSET {1, 2} }
NoContacts == ContactListOf({})

\* The comparison loop on the arrays a session can hold, computed once each.
SessionHashes == { l.hashes : l \in SessionLists } \cup {ZeroSlots}
MatchTable == [ a \in SessionHashes |-> [ b \in SessionHashes |-> MatchLoop(a, b) ] ]

\* submit_contacts_alice: copies the hashes into the state.
SubmitContactsAliceCircuit(st, contacts) ==
    [ st EXCEPT !.alice_hashes = contacts.hashes,
                !.alice_count = contacts.count,
                !.alice_submitted = 1 ]

\* "Store results in state": the state after the comparison loop.
StoreResults(st, bob, res) ==
    [ st EXCEPT !.bob_hashes = bob.hashes,
                !.bob_count = bob.count,
                !.bob_submitted = 1,
                !.is_matched = 1,
                !.result_alice = res.alice_matches,
                !.result_bob = res.bob_matches,
                !.result_count = res.match_count ]

\* submit_and_match: the new state and the MatchResult returned to Bob.
SubmitAndMatchCircuit(st, bob) ==
    LET res == MatchTable[st.alice_hashes][bob.hashes] IN
    [ state |-> StoreResults(st, bob, res),
      result |-> [ matches |-> res.bob_matches, match_count |-> res.match_count ] ]

\* reveal_alice_matches handing out the second party's stored result.
RevealBobMatchesCircuit(st) ==
    [ matches |-> IF st.is_matched = 1 THEN st.result_bob ELSE ZeroSlots,
      match_count |-> IF st.is_matched = 1 THEN st.result_count ELSE 0 ]

\* reveal_alice_matches: the stored intersection, or zeros before the match.
RevealAliceMatchesCircuit(st) ==
    [ matches |-> IF st.is_matched = 1 THEN st.result_alice ELSE ZeroSlots,
      match_count |-> IF st.is_matched = 1 THEN st.result_count ELSE 0 ]

NoOutput == [ to |-> NoParty, matches |-> ZeroSlots, match_count |-> 0 ]
NoOp ==
    [ op |-> "none", phase |-> "none", caller |-> NoParty, verified |-> TRUE,
      result |-> "none" ]

SessionIdle ==
    /\ session = NoSession
    /\ state = ZeroState
    /\ queue = << >>
    /\ output = NoOutput
    /\ lastOp = NoOp
    /\ matchRuns = 0

\* SessionInfo.matchCount is an optional field: this is its absent value.
NoMatchCount == -1

\* useState initial values of the page.
NoCurrentSession == [ id |-> "", status |-> "null", role |-> "", matchCount |-> NoMatchCount,
                      error |-> "" ]
UiInit ==
    [ connected |-> FALSE, contactCount |-> 0, sessionIdInput |-> "",
      isHashing |-> FALSE, hashCount |-> 0, isSubmitting |-> FALSE,
      isEncrypting |-> FALSE, currentSession |-> NoCurrentSession,
      statusMessage |-> "", errorMessage |-> "" ]
NoTask == [ kind |-> "none", pc |-> "idle", lines |-> 0, sid |-> "" ]

ClientIdle ==
    /\ ui = UiInit
    /\ task = NoTask
    /\ timers = 0
    /\ failedJoin = FALSE
    /\ failedCreate = FALSE

NoCall == [ op |-> "none" ]
UtilIdle == call = NoCall

LoopIdle ==
    /\ inA = ZeroSlots
    /\ inB = ZeroSlots
    /\ loop = [ acc |-> LoopStart, i |-> 0, j |-> 0, evals |-> 0, pc |-> "idle" ]

(***************************************************************************)
(* SpecMatch: the loop one pairwise evaluation at a time.  evals is the    *)
(* instrumented comparison counter.                                        *)
(***************************************************************************)
LoopInit ==
    /\ inA \in AInputs
    /\ inB \in BInputs
    /\ loop = [ acc |-> LoopStart, i |-> 0, j |-> 0, evals |-> 0, pc |-> "run" ]
    /\ SessionIdle
    /\ ClientIdle
    /\ UtilIdle

LoopStep ==
    /\ loop.pc = "run"
    /\ LET nxt == Advance(loop.i, loop.j, inA, inB) IN
       loop' = [ acc |-> PairStep(loop.acc, inA, inB, loop.i, loop.j),
                 i |-> nxt.i, j |-> nxt.j,
                 evals |-> loop.evals + 1,
                 pc |-> nxt.pc ]
    /\ UNCHANGED <<inA, inB>>
    /\ UNCHANGED sessionVars
    /\ UNCHANGED clientVars
    /\ UNCHANGED utilVars

MatchNext == LoopStep

SpecMatch == LoopInit /\ [][MatchNext]_vars

(***************************************************************************)
(* Vocabulary of the claims about the comparison loop.                     *)
(***************************************************************************)
NonZero(a) == { a[k] : k \in Slots } \ {0}
Populated(a) == { k \in Slots : a[k] # 0 }
PairwiseDistinct(a) ==
    \A p, q \in Slots : (p # q /\ a[p] # 0) => a[p] # a[q]
LoopDone == loop.pc = "done"
Disjoint == NonZero(inA) \cap NonZero(inB) = {}
FullOverlap ==
    /\ NonZero(inA) = NonZero(inB)
    /\ PairwiseDistinct(inA)
    /\ PairwiseDistinct(inB)

\* C1: when the two 32-slot sets share no non-zero fingerprint, the loop ends
\* with match_count = 0 and with alice_matches and bob_matches all-zero.
C1_DisjointSets ==
    (LoopDone /\ Disjoint) =>
        /\ loop.acc.match_count = 0
        /\ loop.acc.alice_matches = ZeroSlots
        /\ loop.acc.bob_matches = ZeroSlots

\* The loop has finished on two disjoint sets that are both populated and both
\* zero-padded.
C1_Witness ==
    /\ LoopDone /\ Disjoint
    /\ NonZero(inA) # {} /\ NonZero(inB) # {}
    /\ Populated(inA) # Slots /\ Populated(inB) # Slots

\* C2: when both sets hold the same k distinct non-zero fingerprints, in any
\* slot order, the loop ends with match_count = k and every populated slot i of
\* A stands at alice_matches[i], every populated slot j of B at bob_matches[j].
C2_FullOverlap ==
    (LoopDone /\ FullOverlap) =>
        /\ loop.acc.match_count = Cardinality(NonZero(inA))
        /\ \A i \in Populated(inA) : loop.acc.alice_matches[i] = inA[i]
        /\ \A j \in Populated(inB) : loop.acc.bob_matches[j] = inB[j]

\* The loop has finished on two sets holding the same two fingerprints in
\* different slots and in a different order.
C2_Witness ==
    /\ LoopDone /\ FullOverlap
    /\ Cardinality(NonZero(inA)) = 2
    /\ Populated(inA) # Populated(inB)
    /\ inA[0] # inB[0]

\* C3: at the end of the loop alice_matches[i] is A[i] when A[i] is non-zero and
\* occurs in B, and 0 otherwise; bob_matches[j] is B[j] when B[j] is non-zero and
\* occurs in A, and 0 otherwise; two empty sets give all-zero results and no
\* match.
C3_PerSlotResult ==
    LoopDone =>
        /\ \A i \in Slots :
              loop.acc.alice_matches[i] =
                  IF inA[i] # 0 /\ (\E j \in Slots : inB[j] = inA[i])
                  THEN inA[i] ELSE 0
        /\ \A j \in Slots :
              loop.acc.bob_matches[j] =
                  IF inB[j] # 0 /\ (\E i \in Slots : inA[i] = inB[j])
                  THEN inB[j] ELSE 0
        /\ (inA = ZeroSlots /\ inB = ZeroSlots) =>
              /\ loop.acc.match_count = 0
              /\ loop.acc.alice_matches = ZeroSlots
              /\ loop.acc.bob_matches = ZeroSlots

\* The loop has finished on a partial overlap: one populated slot of A matched
\* a slot of B at another index, another populated slot of A matched nothing.
C3_Witness ==
    /\ LoopDone
    /\ \E i \in Populated(inA) : loop.acc.alice_matches[i] = inA[i]
    /\ \E i \in Populated(inA) : loop.acc.alice_matches[i] = 0
    /\ \E j \in Populated(inB) : loop.acc.bob_matches[j] = inB[j] /\ inA[j] # inB[j]

\* C4: the loop performs exactly 32 * 32 = 1024 pairwise evaluations on every
\* input, and the pair of indices touched by the n-th evaluation is
\* (n div 32, n mod 32) whatever the inputs hold: two runs on different inputs
\* touch the same indices at every step.
C4_FixedCost ==
    /\ loop.pc = "run" =>
          /\ loop.evals < NUM_SLOTS * NUM_SLOTS
          /\ loop.i = loop.evals \div NUM_SLOTS
          /\ loop.j = loop.evals % NUM_SLOTS
    /\ loop.pc = "done" => loop.evals = 1024

\* The loop has finished after 1024 evaluations on a set with 32 populated
\* entries against a set with none.
C4_Witness ==
    /\ LoopDone /\ loop.evals = 1024
    /\ Populated(inA) = Slots
    /\ Populated(inB) = {}

MatchingPairs ==
    { p \in Slots \X Slots : inA[p[1]] # 0 /\ inB[p[2]] # 0 /\ inA[p[1]] = inB[p[2]] }
Smaller(m, n) == IF m <= n THEN m ELSE n

\* C25: at the end of the loop match_count is the number of ordered pairs
\* (i, j) with A[i] = B[j] and both non-zero; when the populated slots of each
\* input are pairwise distinct it is also the number of non-zero entries of
\* alice_matches and of bob_matches, and at most the smaller of the two
\* populated counts, hence at most 32.
C25_MatchCount ==
    LoopDone =>
        /\ loop.acc.match_count = Cardinality(MatchingPairs)
        /\ (PairwiseDistinct(inA) /\ PairwiseDistinct(inB)) =>
              /\ loop.acc.match_count = Cardinality(Populated(loop.acc.alice_matches))
              /\ loop.acc.match_count = Cardinality(Populated(loop.acc.bob_matches))
              /\ loop.acc.match_count <=
                    Smaller(Cardinality(Populated(inA)), Cardinality(Populated(inB)))
              /\ loop.acc.match_count <= NUM_SLOTS

\* The loop has finished on two full sets holding the same 32 distinct
\* fingerprints in opposite order: 32 matches, the largest count a pair of
\* ContactSets can give.
C25_Witness ==
    /\ LoopDone
    /\ inA = FullA /\ inB = FullB
    /\ PairwiseDistinct(inA) /\ PairwiseDistinct(inB)
    /\ loop.acc.match_count = NUM_SLOTS
    /\ Cardinality(Populated(loop.acc.alice_matches)) = NUM_SLOTS

(***************************************************************************)
(* SpecSession: the protocol operations on one session.  Every operation   *)
(* may be attempted by any party in any state; an attempt that fails a     *)
(* check is recorded in lastOp and changes nothing else.                   *)
(***************************************************************************)
\* What lastOp records of an attempt: the operation, whether it is the
\* instruction or the callback of its computation, the inputs that decide it
\* (the caller, and for a callback whether the output verifies), and the outcome.
Attempt(op, phase, c, verified, result) ==
    [ op |-> op, phase |-> phase, caller |-> c, verified |-> verified,
      result |-> result ]

Reject(op, c, err) ==
    /\ lastOp' = Attempt(op, "invoke", c, TRUE, err)
    /\ UNCHANGED <<session, state, queue, output, matchRuns>>

\* queue_computation(): hands the encrypted arguments to the compute network.
Enqueue(op, c, contacts) ==
    /\ queue' = Append(queue, [ op |-> op, caller |-> c, contacts |-> contacts ])
    /\ lastOp' = Attempt(op, "invoke", c, TRUE, "queued")

\* initialize session: creates the record and the zeroed SessionState.
CreateSession(c) ==
    IF session.exists
    THEN Reject("create_session", c, "StateError")
    ELSE /\ session' = [ exists |-> TRUE, alice |-> c, bob |-> NoParty,
                         status |-> AwaitingBob ]
         /\ state' = ZeroState
         /\ lastOp' = Attempt("create_session", "invoke", c, TRUE, "ok")
         /\ UNCHANGED <<queue, output, matchRuns>>

\* An authority check that lets every caller through.
IsFirstPartyAnyone(c) == TRUE

\* Authority check: only the identity recorded as first party.
IsFirstParty(c) == c = session.alice

\* submit first-party contacts.
SubmitContactsAlice(c, contacts) ==
    IF ~session.exists
    THEN Reject("submit_contacts_alice", c, "NoSession")
    ELSE IF ~IsFirstParty(c)
    THEN Reject("submit_contacts_alice", c, "AuthorityError")
    ELSE IF session.status # AwaitingBob
    THEN Reject("submit_contacts_alice", c, "StateError")
    ELSE /\ Len(queue) < MaxQueue
         /\ Enqueue("submit_contacts_alice", c, contacts)
         /\ UNCHANGED <<session, state, output, matchRuns>>

\* A status check that only refuses a session whose computation is in flight.
MaySubmitAndMatchNotComputing == session.status # Computing

\* The preconditions of submit second-party contacts and compute: the status
\* is AwaitingBob and the second-party slot is empty.
MaySubmitAndMatch == session.status = AwaitingBob /\ session.bob = NoParty

\* submit second-party contacts and compute creating the record when the
\* session's address holds none.
SubmitAndMatchInitIfNeeded(c, contacts) ==
    IF session.exists /\ ~MaySubmitAndMatch
    THEN Reject("submit_and_match", c, "StateError")
    ELSE /\ Len(queue) < MaxQueue
         /\ session' = [ session EXCEPT !.exists = TRUE, !.bob = c, !.status = Computing ]
         /\ Enqueue("submit_and_match", c, contacts)
         /\ UNCHANGED <<state, output, matchRuns>>

\* submit second-party contacts and compute recording the caller before the
\* status and slot are checked.
SubmitAndMatchWriteFirst(c, contacts) ==
    IF ~session.exists
    THEN Reject("submit_and_match", c, "NoSession")
    ELSE IF ~MaySubmitAndMatch
    THEN /\ session' = [ session EXCEPT !.bob = c ]
         /\ lastOp' = Attempt("submit_and_match", "invoke", c, TRUE, "StateError")
         /\ UNCHANGED <<state, queue, output, matchRuns>>
    ELSE /\ Len(queue) < MaxQueue
         /\ session' = [ session EXCEPT !.bob = c, !.status = Computing ]
         /\ Enqueue("submit_and_match", c, contacts)
         /\ UNCHANGED <<state, output, matchRuns>>

\* submit second-party contacts and compute.
SubmitAndMatch(c, contacts) ==
    IF ~session.exists
    THEN Reject("submit_and_match", c, "NoSession")
    ELSE IF ~MaySubmitAndMatch
    THEN Reject("submit_and_match", c, "StateError")
    ELSE /\ Len(queue) < MaxQueue
         /\ session' = [ session EXCEPT !.bob = c, !.status = Computing ]
         /\ Enqueue("submit_and_match", c, contacts)
         /\ UNCHANGED <<state, output, matchRuns>>

\* reveal results: queues the read-only projection for the caller.
RevealAliceMatches(c) ==
    IF ~session.exists
    THEN Reject("reveal_alice_matches", c, "NoSession")
    ELSE /\ Len(queue) < MaxQueue
         /\ Enqueue("reveal_alice_matches", c, NoContacts)
         /\ UNCHANGED <<session, state, output, matchRuns>>

\* A callback that takes the output without verifying it.
AcceptsUnverified(verified) == TRUE

\* output.verify_output(): the callback accepts only a verified output.
Accepts(verified) == verified

\* The callback of the oldest queued computation.
Callback(verified) ==
    /\ queue # << >>
    /\ LET job == Head(queue) IN
       /\ queue' = Tail(queue)
       /\ IF ~Accepts(verified)
          THEN /\ lastOp' = Attempt(job.op, "callback", job.caller, verified,
                                    "VerificationError")
               /\ UNCHANGED <<session, state, output, matchRuns>>
          ELSE /\ lastOp' = Attempt(job.op, "callback", job.caller, verified, "ok")
               /\ IF job.op = "submit_contacts_alice"
                  THEN /\ state' = SubmitContactsAliceCircuit(state, job.contacts)
                       /\ UNCHANGED <<session, output, matchRuns>>
                  ELSE IF job.op = "submit_and_match"
                  THEN LET r == SubmitAndMatchCircuit(state, job.contacts) IN
                       /\ state' = r.state
                       /\ output' = [ to |-> job.caller,
                                      matches |-> r.result.matches,
                                      match_count |-> r.result.match_count ]
                       /\ session' = [ session EXCEPT !.status = Matched ]
                       /\ matchRuns' = matchRuns + 1
                  ELSE LET r == RevealAliceMatchesCircuit(state) IN
                       /\ output' = [ to |-> job.caller,
                                      matches |-> r.matches,
                                      match_count |-> r.match_count ]
                       /\ UNCHANGED <<session, state, matchRuns>>

SessionInit == SessionIdle /\ LoopIdle /\ ClientIdle /\ UtilIdle

SessionNext ==
    \/ \E c \in Parties : CreateSession(c) /\ UNCHANGED <<loopVars, clientVars, utilVars>>
    \/ \E c \in Parties, l \in SessionLists :
          SubmitContactsAlice(c, l) /\ UNCHANGED <<loopVars, clientVars, utilVars>>
    \/ \E c \in Parties, l \in SessionLists :
          SubmitAndMatch(c, l) /\ UNCHANGED <<loopVars, clientVars, utilVars>>
    \/ \E c \in Parties : RevealAliceMatches(c) /\ UNCHANGED <<loopVars, clientVars, utilVars>>
    \/ \E v \in BOOLEAN : Callback(v) /\ UNCHANGED <<loopVars, clientVars, utilVars>>

SpecSession == SessionInit /\ [][SessionNext]_vars

(***************************************************************************)
(* Claims about the session.                                               *)
(***************************************************************************)
Invoked(l, op) == l.op = op /\ l.phase = "invoke"
CalledBack(l, op) == l.op = op /\ l.phase = "callback"
SessionUntouched == UNCHANGED <<session, state, queue, output, matchRuns>>

\* C5: once the session is Matched, every further submit_and_match is rejected
\* and leaves the stored results, both contact sets and the ledger record
\* unchanged; the comparison runs at most once per session.
C5_SingleCompute ==
    /\ [][ ((session.status = Matched \/ state.is_matched = 1)
            /\ Invoked(lastOp', "submit_and_match"))
           => (lastOp'.result = "StateError" /\ SessionUntouched) ]_vars
    /\ [](matchRuns <= 1)

\* A submit_and_match was rejected on a Matched session holding a non-empty
\* result.
C5_Witness ==
    /\ session.status = Matched
    /\ state.result_count > 0
    /\ matchRuns = 1
    /\ Invoked(lastOp, "submit_and_match")
    /\ lastOp.result = "StateError"

\* C6: submit_contacts_alice invoked by an identity other than the recorded first
\* party is rejected with AuthorityError and changes neither the SessionState
\* nor the ledger record.
C6_Authority ==
    [][ (session.exists
         /\ Invoked(lastOp', "submit_contacts_alice")
         /\ lastOp'.caller # session.alice)
        => (lastOp'.result = "AuthorityError" /\ SessionUntouched) ]_vars

\* Another identity was rejected while the session was still open to the first
\* party's own submission.
C6_Witness ==
    /\ session.exists
    /\ session.status = AwaitingBob
    /\ Invoked(lastOp, "submit_contacts_alice")
    /\ lastOp.caller # session.alice
    /\ lastOp.result = "AuthorityError"

\* C7: the ledger status code stays within 0..3, never decreases, and stays
\* Matched once it is Matched.
C7_StatusMonotonic ==
    /\ [](session.status \in 0 .. 3)
    /\ [][session'.status >= session.status]_vars
    /\ [][session.status = Matched => session'.status = Matched]_vars

\* The session went through Computing to Matched and an operation was
\* attempted on it afterwards.
C7_Witness ==
    /\ session.status = Matched
    /\ lastOp.phase = "invoke"
    /\ lastOp.op # "create_session"

C10_VerifiedOnly ==
    /\ [][ (session'.status = Matched /\ session.status # Matched)
           => (CalledBack(lastOp', "submit_and_match") /\ lastOp'.verified) ]_vars
    /\ [][ output' # output
           => (lastOp'.phase = "callback" /\ lastOp'.verified) ]_vars
    /\ [][ (lastOp'.phase = "callback" /\ ~lastOp'.verified)
           => /\ lastOp'.result = "VerificationError"
              /\ UNCHANGED <<session, state, output, matchRuns>> ]_vars

\* The callback of submit_and_match carried an output that failed
\* verification: the session is still Computing and nothing is stored.
C10_Witness ==
    /\ CalledBack(lastOp, "submit_and_match")
    /\ ~lastOp.verified
    /\ lastOp.result = "VerificationError"
    /\ session.status = Computing
    /\ state.is_matched = 0

\* C18: no reveal_alice_matches step, invocation or callback, in any state,
\* changes the SessionState or the ledger record; its callback returns
\* (result_alice, result_count) when is_matched = 1 and an all-zero match set
\* with match_count 0 otherwise; a Matched session's stored result never
\* changes, so repeated reveals return the same result.
C18_RevealReadOnly ==
    /\ [][ lastOp'.op = "reveal_alice_matches" => UNCHANGED <<session, state>> ]_vars
    /\ [][ (CalledBack(lastOp', "reveal_alice_matches") /\ lastOp'.result = "ok")
           => /\ output'.matches =
                    (IF state.is_matched = 1 THEN state.result_alice ELSE ZeroSlots)
              /\ output'.match_count =
                    (IF state.is_matched = 1 THEN state.result_count ELSE 0) ]_vars
    /\ [][ state.is_matched = 1
           => /\ state'.is_matched = 1
              /\ state'.result_alice = state.result_alice
              /\ state'.result_count = state.result_count ]_vars

\* A reveal on a Matched session returned the stored non-empty first-party
\* result, which differs from the second party's.
C18_Witness ==
    /\ CalledBack(lastOp, "reveal_alice_matches")
    /\ lastOp.result = "ok"
    /\ session.status = Matched
    /\ state.is_matched = 1
    /\ state.result_count > 0
    /\ state.result_alice # state.result_bob
    /\ output.matches = state.result_alice
    /\ output.match_count = state.result_count

\* Something of a second-party submission is present: a claimed slot, a status
\* past AwaitingBob, a queued or finished comparison, or stored results.
SecondPartyTrace ==
    \/ session.bob # NoParty
    \/ session.status \in {Computing, Matched}
    \/ \E k \in 1 .. Len(queue) : queue[k].op = "submit_and_match"
    \/ matchRuns > 0
    \/ state # ZeroState /\ ~session.exists

\* C21: submit_and_match succeeds only on a session that create_session
\* initialized earlier: the record comes into existence only by a successful
\* create_session and then stays; a submit_and_match on a session that was never
\* initialized is rejected and creates no record, no queued computation and no
\* results.
C21_InitBeforeSubmit ==
    /\ [][ (~session.exists /\ session'.exists)
           => (Invoked(lastOp', "create_session") /\ lastOp'.result = "ok") ]_vars
    /\ [][ session.exists => session'.exists ]_vars
    /\ [][ (Invoked(lastOp', "submit_and_match") /\ lastOp'.result = "queued")
           => session.exists ]_vars
    /\ [][ (~session.exists /\ Invoked(lastOp', "submit_and_match"))
           => (lastOp'.result = "NoSession" /\ SessionUntouched) ]_vars
    /\ [](SecondPartyTrace => session.exists)

\* A submit_and_match carrying a non-empty list was rejected on a session that
\* was never initialized: no record, no state, nothing queued.
C21_Witness ==
    /\ Invoked(lastOp, "submit_and_match")
    /\ lastOp.result = "NoSession"
    /\ session = NoSession
    /\ state = ZeroState
    /\ queue = << >>
    /\ matchRuns = 0

\* C24: submit_and_match succeeds only when the status is AwaitingBob and the
\* recorded second party is empty, and it then records its caller; a recorded
\* second party never changes; a submit_and_match on an existing session that
\* fails the status or slot precondition is rejected with StateError and
\* leaves the ledger record, the SessionState, the queue and the output
\* unchanged.
C24_SecondPartyOnce ==
    /\ [][ (Invoked(lastOp', "submit_and_match") /\ lastOp'.result = "queued")
           => /\ session.status = AwaitingBob
              /\ session.bob = NoParty
              /\ session'.bob = lastOp'.caller ]_vars
    /\ [][ session.bob # NoParty => session'.bob = session.bob ]_vars
    /\ [][ (session.exists
            /\ Invoked(lastOp', "submit_and_match")
            /\ ~(session.status = AwaitingBob /\ session.bob = NoParty))
           => (lastOp'.result = "StateError" /\ SessionUntouched) ]_vars
    /\ [][ session'.bob # session.bob
           => (Invoked(lastOp', "submit_and_match") /\ lastOp'.result = "queued") ]_vars

\* While the first claimant's computation is still in flight, another identity
\* attempted submit_and_match and was rejected; the recorded second party is
\* still the first claimant.
C24_Witness ==
    /\ session.status = Computing
    /\ session.bob # NoParty
    /\ Len(queue) = 1
    /\ Invoked(lastOp, "submit_and_match")
    /\ lastOp.result = "StateError"
    /\ lastOp.caller # session.bob

(***************************************************************************)
(* SpecClient: the page's create and join handlers.  A handler runs up to  *)
(* its next await in one step; the promise it awaits resolves in a later   *)
(* step.  The form is rendered only while currentSession is null and its   *)
(* controls are disabled while a busy flag is set, so one handler is in    *)
(* flight at a time; the Reset button is rendered while a session is       *)
(* shown.  The line-count check of the buttons is left out so that an      *)
(* over-capacity list reaches the handler's own check.                     *)
(***************************************************************************)
MAX_CONTACTS == 32
LineCounts == {0, 1, MAX_CONTACTS + 1}
SessionIdInputs == {"", "a1b2"}

Busy == ui.isHashing \/ ui.isSubmitting \/ ui.isEncrypting
FormShown == ui.currentSession = NoCurrentSession

SetFields(u, fs) == [k \in DOMAIN u |-> IF k \in DOMAIN fs THEN fs[k] ELSE u[k]]

\* The wallet adapter connects or disconnects.
ToggleWallet ==
    /\ ui' = [ui EXCEPT !.connected = ~ui.connected]
    /\ UNCHANGED <<task, timers, failedJoin, failedCreate>>

SetContactInput(n) ==
    /\ FormShown
    /\ ~Busy
    /\ ui.contactCount # n
    /\ ui' = [ui EXCEPT !.contactCount = n]
    /\ UNCHANGED <<task, timers, failedJoin, failedCreate>>

SetSessionIdInput(sid) ==
    /\ FormShown
    /\ ~(ui.isSubmitting \/ ui.isEncrypting)
    /\ ui.sessionIdInput # sid
    /\ ui' = [ui EXCEPT !.sessionIdInput = sid]
    /\ UNCHANGED <<task, timers, failedJoin, failedCreate>>

\* The synchronous prefix shared by both handlers, up to `await hashContactList`.
StartHandler(kind) ==
    /\ ui' = SetFields(ui, [ errorMessage |-> "", isHashing |-> TRUE, hashCount |-> 0,
                             statusMessage |-> "Hashing contacts locally..." ])
    /\ task' = [ kind |-> kind, pc |-> "hashing", lines |-> ui.contactCount,
                 sid |-> ui.sessionIdInput ]
    /\ UNCHANGED <<timers, failedJoin, failedCreate>>

\* if (!connected || contactCount === 0) return;
CreateGuard == ui.connected /\ ui.contactCount # 0
\* if (!connected || contactCount === 0 || !sessionIdInput.trim()) return;
JoinGuard == ui.connected /\ ui.contactCount # 0 /\ ui.sessionIdInput # ""

\* return;
GuardFails == UNCHANGED <<ui, task, timers, failedJoin, failedCreate>>

HandleCreateSession ==
    /\ FormShown /\ ~Busy /\ task = NoTask
    /\ IF CreateGuard THEN StartHandler("create") ELSE GuardFails

HandleJoinSession ==
    /\ FormShown /\ ~Busy /\ task = NoTask
    /\ timers < MaxTimers
    /\ IF JoinGuard THEN StartHandler("join") ELSE GuardFails

\* A catch block that only reports the error.
CatchErrorMessageOnly(u, msg) ==
    SetFields(u, [ errorMessage |-> msg, statusMessage |-> "" ])

\* The outer catch block of either handler.
CatchError(u, msg) ==
    SetFields(u, [ errorMessage |-> msg, isHashing |-> FALSE, isEncrypting |-> FALSE,
                   isSubmitting |-> FALSE, statusMessage |-> "" ])

\* The counts hashContactList can return for a list of n non-blank lines:
\* deduplication keeps between one and n of them.
HashCounts(n) == {1, n}

\* hashContactList cutting an over-long list down to capacity instead of
\* throwing.
HashSettledTruncates ==
    /\ task.pc = "hashing"
    /\ \E count \in HashCounts(IF task.lines > MAX_CONTACTS THEN MAX_CONTACTS
                                 ELSE task.lines) :
          /\ ui' = SetFields(ui, [ hashCount |-> count, isHashing |-> FALSE,
                                   statusMessage |-> "Setting up Arcium encryption...",
                                   isEncrypting |-> TRUE ])
          /\ task' = [task EXCEPT !.pc = "cipher"]
    /\ UNCHANGED <<timers, failedJoin, failedCreate>>

\* `await hashContactList(contactLines)` settles.
HashSettled ==
    /\ task.pc = "hashing"
    /\ IF task.lines > MAX_CONTACTS
       THEN /\ ui' = CatchError(ui, "Maximum 32 contacts allowed")
            /\ task' = NoTask
       ELSE \E count \in HashCounts(task.lines) :
              /\ ui' = SetFields(ui, [ hashCount |-> count, isHashing |-> FALSE,
                                       statusMessage |-> "Setting up Arcium encryption...",
                                       isEncrypting |-> TRUE ])
              /\ task' = [task EXCEPT !.pc = "cipher"]
    /\ UNCHANGED <<timers, failedJoin, failedCreate>>

\* createCipher resolves exactly when the MXE public key could be fetched.
CreateCipherOk(mxePublicKey) == mxePublicKey

NewSession(id, status, role, error) ==
    [ id |-> id, status |-> status, role |-> role, matchCount |-> NoMatchCount,
      error |-> error ]

\* `await createCipher(connection)` settles inside handleCreateSession; the
\* handler then runs to its end.  encrypts: encryptContactHashes returns
\* rather than throws.
CreateCipherSettled(mxePublicKey, encrypts) ==
    /\ task.kind = "create" /\ task.pc = "cipher"
    /\ IF CreateCipherOk(mxePublicKey) /\ ~encrypts
       THEN ui' = CatchError(ui, "Failed to create session")
       ELSE IF CreateCipherOk(mxePublicKey)
       THEN ui' = SetFields(ui,
                    [ isEncrypting |-> FALSE, isSubmitting |-> FALSE,
                      currentSession |-> NewSession("generated", "awaiting_bob", "alice", ""),
                      statusMessage |->
                        "Session created. Contacts encrypted with Arcium Rescue cipher." ])
       ELSE ui' = SetFields(ui,
                    [ isEncrypting |-> FALSE, isSubmitting |-> FALSE,
                      statusMessage |-> "",
                      currentSession |-> NewSession("generated", "awaiting_bob", "alice",
                        "Demo mode: MXE not available for encryption. Session created locally.") ])
    /\ task' = NoTask
    /\ failedJoin' = FALSE
    /\ failedCreate' = ~CreateCipherOk(mxePublicKey)
    /\ UNCHANGED timers

\* `await createCipher(connection)` settles inside handleJoinSession; the
\* handler then runs to its end.
JoinCipherSettled(mxePublicKey, encrypts) ==
    /\ task.kind = "join" /\ task.pc = "cipher"
    /\ IF CreateCipherOk(mxePublicKey) /\ ~encrypts
       THEN /\ ui' = CatchError(ui, "Failed to join session")
            /\ failedJoin' = FALSE
            /\ UNCHANGED timers
       ELSE IF CreateCipherOk(mxePublicKey)
       THEN /\ ui' = SetFields(ui,
                      [ isEncrypting |-> FALSE, isSubmitting |-> FALSE,
                        currentSession |-> NewSession(task.sid, "computing", "bob", ""),
                        statusMessage |->
                          "Contacts encrypted. PSI computation queued on Arcium MPC." ])
            /\ failedJoin' = FALSE
            /\ UNCHANGED timers
       ELSE /\ ui' = SetFields(ui,
                      [ isEncrypting |-> FALSE, isSubmitting |-> FALSE,
                        statusMessage |-> "Computing intersection (demo)...",
                        currentSession |-> NewSession(task.sid, "computing", "bob",
                          "Demo mode: MXE not available. Simulating PSI computation.") ])
            /\ failedJoin' = TRUE
            /\ timers' = timers + 1
    /\ task' = NoTask
    /\ failedCreate' = FALSE

\* The functional update passed to setCurrentSession by the timer callback.
DemoUpdate(prev) ==
    IF prev # NoCurrentSession
    THEN [prev EXCEPT !.status = "matched", !.matchCount = 0,
                      !.error = "Demo mode: No real MPC computation available."]
    ELSE NoCurrentSession

\* The setTimeout callback of the join handler's demo path runs.
DemoTimerFires ==
    /\ timers > 0
    /\ ui' = SetFields(ui, [ currentSession |-> DemoUpdate(ui.currentSession),
                             statusMessage |-> "" ])
    /\ timers' = timers - 1
    /\ UNCHANGED <<task, failedJoin, failedCreate>>

HandleReset ==
    /\ ~FormShown
    /\ ui' = SetFields(ui, [ currentSession |-> NoCurrentSession, contactCount |-> 0,
                             sessionIdInput |-> "", hashCount |-> 0,
                             statusMessage |-> "", errorMessage |-> "" ])
    /\ failedJoin' = FALSE
    /\ failedCreate' = FALSE
    /\ UNCHANGED <<task, timers>>

ClientInit == ClientIdle /\ SessionIdle /\ LoopIdle /\ UtilIdle

ClientNext ==
    \/ ToggleWallet /\ UNCHANGED <<loopVars, sessionVars, utilVars>>
    \/ \E n \in LineCounts : SetContactInput(n) /\ UNCHANGED <<loopVars, sessionVars, utilVars>>
    \/ \E sid \in SessionIdInputs :
          SetSessionIdInput(sid) /\ UNCHANGED <<loopVars, sessionVars, utilVars>>
    \/ HandleCreateSession /\ UNCHANGED <<loopVars, sessionVars, utilVars>>
    \/ HandleJoinSession /\ UNCHANGED <<loopVars, sessionVars, utilVars>>
    \/ HashSettled /\ UNCHANGED <<loopVars, sessionVars, utilVars>>
    \/ \E k, e \in BOOLEAN :
          CreateCipherSettled(k, e) /\ UNCHANGED <<loopVars, sessionVars, utilVars>>
    \/ \E k, e \in BOOLEAN :
          JoinCipherSettled(k, e) /\ UNCHANGED <<loopVars, sessionVars, utilVars>>
    \/ DemoTimerFires /\ UNCHANGED <<loopVars, sessionVars, utilVars>>
    \/ HandleReset /\ UNCHANGED <<loopVars, sessionVars, utilVars>>

SpecClient == ClientInit /\ [][ClientNext]_vars

\* Every awaited promise settles: hashContactList computes locally, and
\* createCipher's request to the cluster resolves or rejects.
PromiseSettles ==
    /\ UNCHANGED <<loopVars, sessionVars, utilVars>>
    /\ \/ HashSettled
       \/ \E k, e \in BOOLEAN : CreateCipherSettled(k, e)
       \/ \E k, e \in BOOLEAN : JoinCipherSettled(k, e)

SpecClientLive == ClientInit /\ [][ClientNext]_vars /\ WF_vars(PromiseSettles)

(***************************************************************************)
(* Claims about the client.                                                *)
(***************************************************************************)
ShowsZeroMatches ==
    /\ ui.currentSession # NoCurrentSession
    /\ ui.currentSession.status = "matched"
    /\ ui.currentSession.matchCount = 0

ReportsFailure ==
    \/ ui.errorMessage # ""
    \/ ui.currentSession.status = "error"

\* C9: when encryption cannot be initialised while joining a session, the
\* client reports the failure (an error message or an error status) once the
\* handler has returned, and the session is never shown as matched with
\* zero matches.
C9_InfraFailureReported ==
    failedJoin => /\ ~ShowsZeroMatches
                  /\ (task = NoTask => ReportsFailure)

\* C17: createCipher never returns a cipher when the compute network's public
\* key cannot be retrieved, and handleCreateSession then does not proceed: no
\* session is recorded in status awaiting_bob and no session identifier is
\* shown to the user.
C17_KeyUnavailableStops ==
    /\ ~CreateCipherOk(FALSE)
    /\ failedCreate =>
          /\ ui.currentSession.status # "awaiting_bob"
          /\ ui.currentSession.id = ""

OverCapacity == task # NoTask /\ task.lines > MAX_CONTACTS

\* C26: when handleCreateSession or handleJoinSession runs on more than 32
\* non-blank contact lines, the step that ends its hashing puts the capacity
\* error into errorMessage, leaves currentSession null and ends the handler
\* with every busy flag clear: the handler never reaches the cipher setup,
\* the encryption or the submission.
C26_OverCapacityClient ==
    /\ [](OverCapacity =>
            /\ task.pc = "hashing"
            /\ ~ui.isEncrypting /\ ~ui.isSubmitting
            /\ ui.currentSession = NoCurrentSession)
    /\ [][ (OverCapacity /\ task' # task)
           => /\ task' = NoTask
              /\ ui'.errorMessage = "Maximum 32 contacts allowed"
              /\ ui'.currentSession = NoCurrentSession
              /\ ~ui'.isHashing /\ ~ui'.isEncrypting /\ ~ui'.isSubmitting
              /\ timers' = timers ]_vars

\* A handler that was started on 33 contact lines has ended: the capacity
\* error is shown and there is no session.
C26_Witness ==
    /\ task = NoTask
    /\ ui.contactCount = MAX_CONTACTS + 1
    /\ ui.errorMessage = "Maximum 32 contacts allowed"
    /\ ui.currentSession = NoCurrentSession
    /\ ~Busy

\* C27: a handler that passed its guard always ends, and whenever no handler
\* is in flight isHashing, isEncrypting and isSubmitting are all false,
\* whichever way it ended (hashing threw, cipher setup failed, encryption
\* threw, or everything succeeded); a handler invoked while its guard fails
\* changes nothing.
C27_BusyFlagsClear ==
    /\ [](task = NoTask => ~Busy)
    /\ (task # NoTask) ~> (task = NoTask /\ ~Busy)
    /\ [][ ((HandleCreateSession /\ ~CreateGuard) \/ (HandleJoinSession /\ ~JoinGuard))
           => UNCHANGED clientVars ]_vars

\* A handler passed its guard, hashed and set up the cipher, then the
\* encryption threw: the error is shown, no session exists and every busy
\* flag is clear.
C27_Witness ==
    /\ task = NoTask
    /\ ui.errorMessage \in {"Failed to create session", "Failed to join session"}
    /\ ui.hashCount > 0
    /\ ui.currentSession = NoCurrentSession
    /\ ~ui.isHashing /\ ~ui.isEncrypting /\ ~ui.isSubmitting

\* C28: the timer callback scheduled by handleJoinSession marks as matched
\* only the join session that scheduled it: a session shown as matched is the
\* second-party session whose join scheduled the timer, and a first-party
\* session, also one created after handleReset while a timer is still
\* pending, keeps status awaiting_bob.
C28_TimerOnlyOwnSession ==
    /\ ui.currentSession.status = "matched" =>
          (ui.currentSession.role = "bob" /\ failedJoin)
    /\ ui.currentSession.role = "alice" => ui.currentSession.status = "awaiting_bob"

(***************************************************************************)
(* Client utilities (hash.ts, arcium.ts, program.ts).  A string is a       *)
(* sequence of one-character strings.                                      *)
(***************************************************************************)
Chars == {"5", "+", "-", " ", "a", "A"}
MaxStrLen == 3
Strings == UNION { [1 .. n -> Chars] : n \in 0 .. MaxStrLen }

Digits == {"1", "5"}
PhoneChars == Digits \cup {" ", "-", "+", "(", ")"}

\* String.prototype.trim
RECURSIVE TrimStart(_)
TrimStart(s) == IF s # <<>> /\ Head(s) = " " THEN TrimStart(Tail(s)) ELSE s
RECURSIVE TrimEnd(_)
TrimEnd(s) ==
    IF s # <<>> /\ s[Len(s)] = " " THEN TrimEnd(SubSeq(s, 1, Len(s) - 1)) ELSE s
Trim(s) == TrimEnd(TrimStart(s))

\* String.prototype.toLowerCase
ToLowerCase(s) == [k \in 1 .. Len(s) |-> IF s[k] = "A" THEN "a" ELSE s[k]]

\* /^[\d\s\-\+\(\)]+$/.test(normalized)
LooksLikePhone(s) == s # <<>> /\ \A k \in 1 .. Len(s) : s[k] \in PhoneChars

\* normalized.replace(/[^\d+]/g, "")
IsDigitOrPlus(c) == c \in Digits \cup {"+"}
IsNotSpace(c) == c # " "
\* A replace that removes whitespace only.
StripWhitespaceOnly(s) == SelectSeq(s, IsNotSpace)

StripNonDigits(s) == SelectSeq(s, IsDigitOrPlus)

StartsWithPlus(s) == s # <<>> /\ s[1] = "+"

NormalizeAlwaysPrefix(contact) ==
    LET normalized == ToLowerCase(Trim(contact)) IN
    IF LooksLikePhone(normalized)
    THEN <<"+", "1">> \o StripNonDigits(normalized)
    ELSE normalized

NormalizeContact(contact) ==
    LET normalized == ToLowerCase(Trim(contact)) IN
    IF LooksLikePhone(normalized)
    THEN LET stripped == StripNonDigits(normalized) IN
         IF StartsWithPlus(stripped) THEN stripped ELSE <<"+", "1">> \o stripped
    ELSE normalized

CallNormalizeContact(x) ==
    call' = [ op |-> "normalizeContact", in |-> x, out |-> NormalizeContact(x) ]

\* C12: normalizeContact is idempotent: normalizing the output of
\* normalizeContact again returns it unchanged, for every input string.
C12_NormalizeIdempotent ==
    call.op = "normalizeContact" => NormalizeContact(call.out) = call.out

\* A phone-like input without a leading '+' was normalized: punctuation
\* stripped and the default country code prepended.
C12_Witness ==
    /\ call.op = "normalizeContact"
    /\ call.in = <<"5", "-", "5">>
    /\ call.out = <<"+", "1", "5", "5">>

(***************************************************************************)
(* hashContact / hashContactList.  The upper 128 bits of SHA-256 are an    *)
(* unknown function of the encoded string; two stand in for it: an ideal   *)
(* one (injective, never zero) and a narrow one whose range is so small    *)
(* that values repeat and zero occurs, as they must somewhere for a        *)
(* 128-bit digest of arbitrary strings.                                    *)
(***************************************************************************)
CharOrder == <<"1", "5", "+", "-", " ", "a", "A", "(", ")">>
CharCode(c) == CHOOSE k \in 1 .. Len(CharOrder) : CharOrder[k] = c

\* new TextEncoder().encode(normalized), read as one number
RECURSIVE Encode(_)
Encode(s) ==
    IF s = <<>> THEN 0
    ELSE Encode(SubSeq(s, 1, Len(s) - 1)) * (Len(CharOrder) + 1) + CharCode(s[Len(s)])

DigestKinds == {"ideal", "narrow"}
NarrowRange == 3
Sha256Upper128(d, s) ==
    IF d = "ideal" THEN Encode(s) + 1 ELSE Encode(s) % NarrowRange

\* hashContact digesting the string as given.
HashContactRaw(d, contact) == Sha256Upper128(d, contact)

HashContact(d, contact) == Sha256Upper128(d, NormalizeContact(contact))

MapNormalize(contacts) == [k \in 1 .. Len(contacts) |-> NormalizeContact(contacts[k])]

Range(seq) == { seq[k] : k \in 1 .. Len(seq) }

KeepAll(seq) == seq

\* [...new Set(seq)]: the distinct elements in first-insertion order
RECURSIVE SetOrder(_)
SetOrder(seq) ==
    IF seq = <<>> THEN <<>>
    ELSE LET front == SubSeq(seq, 1, Len(seq) - 1)
             last == seq[Len(seq)]
         IN  IF last \in Range(front) THEN SetOrder(front)
             ELSE Append(SetOrder(front), last)

NonEmpty(c) == Len(c) > 0

UniqueWithEmpty(contacts) == SetOrder(MapNormalize(contacts))

Unique(contacts) == SelectSeq(SetOrder(MapNormalize(contacts)), NonEmpty)

TooManyAtCapacity(contacts) == Len(contacts) >= MAX_CONTACTS

\* The capacity check applied to the deduplicated list.
TooManyUnique(contacts) == Len(Unique(contacts)) > MAX_CONTACTS

TooMany(contacts) == Len(contacts) > MAX_CONTACTS

HashContactList(d, contacts) ==
    IF TooMany(contacts)
    THEN [ ok |-> FALSE, error |-> "Maximum 32 contacts allowed" ]
    ELSE LET unique == Unique(contacts) IN
         [ ok |-> TRUE,
           hashes |-> [k \in Slots |-> IF k < Len(unique)
                                       THEN HashContact(d, unique[k + 1])
                                       ELSE 0],
           count |-> Len(unique) ]

\* The lists hashContactList is called with: every list of at most
\* MaxListLen sample strings, and lists at and around the capacity.
Samples == { <<>>, <<" ">>, <<"a">>, <<"A">>, <<"5">>, <<"+", "5">>, <<"-">>,
             <<"a", "5">> }
MaxListLen == 2
ShortLists == UNION { [1 .. n -> Samples] : n \in 0 .. MaxListLen }

EntryChars == <<"5", "+", "-", "a", "(", ")">>
Entry(first, k) ==
    <<first, EntryChars[(k \div Len(EntryChars)) + 1], EntryChars[(k % Len(EntryChars)) + 1]>>
\* n entries with pairwise distinct normalized forms
DistinctList(n) == [k \in 1 .. n |-> Entry("a", k)]
\* n pairwise distinct entries, the first two differing only in case
CaseList(n) == [k \in 1 .. n |-> IF k = 1 THEN Entry("A", 2) ELSE Entry("a", k)]
\* n copies of one contact
CopiesList(n) == [k \in 1 .. n |-> <<"a">>]
LongLists ==
    { DistinctList(n) : n \in (MAX_CONTACTS - 1) .. (MAX_CONTACTS + 1) }
        \cup { CaseList(MAX_CONTACTS), CaseList(MAX_CONTACTS + 1) }
        \cup { CopiesList(MAX_CONTACTS), CopiesList(MAX_CONTACTS + 1) }
ContactLists == ShortLists \cup LongLists

\* How many times hashContactList has called hashContact when it returns or
\* throws: once per iteration of its for loop.
HashContactCalls(contacts) == IF TooMany(contacts) THEN 0 ELSE Len(Unique(contacts))

\* The second entry of the two-entry lists whose first entry ranges over all
\* strings: variants in case, whitespace, punctuation and country code.
PairSamples == { <<" ">>, <<"a">>, <<"5">>, <<"+", "5">>, <<"+", "1", "5">>,
                 <<"5", "5">> }

CallHashContactList(d, contacts) ==
    call' = [ op |-> "hashContactList", digest |-> d, in |-> contacts,
              out |-> HashContactList(d, contacts),
              hashed |-> HashContactCalls(contacts) ]

\* resolveMatches: the original contacts whose fingerprint is among the
\* non-zero matched hashes.
NonZeroHashes(matchedHashes) == { matchedHashes[k] : k \in DOMAIN matchedHashes } \ {0}

ResolveMatchesOnce(d, originalContacts, matchedHashes) ==
    SetOrder(SelectSeq(originalContacts,
                       LAMBDA contact :
                           HashContact(d, contact) \in NonZeroHashes(matchedHashes)))

ResolveMatches(d, originalContacts, matchedHashes) ==
    SelectSeq(originalContacts,
              LAMBDA contact : HashContact(d, contact) \in NonZeroHashes(matchedHashes))

\* The two parties' raw lists of an end-to-end run: every list of at most
\* MaxPartyLen entries that are blank, letters in either case or a phone
\* number, the two lists of the partial-overlap scenario, and two lists at
\* capacity.
PartySamples == { <<>>, <<"a">>, <<"A">>, <<"5">> }
MaxPartyLen == 2
ScenarioA == << <<"a">>, <<"+", "5">>, <<"a", "5">> >>
ScenarioB == << <<"a", "a">>, <<"+", "5">>, <<"5", "a">> >>
PartyLists ==
    UNION { [1 .. n -> PartySamples] : n \in 0 .. MaxPartyLen }
        \cup { ScenarioA, ScenarioB, DistinctList(MAX_CONTACTS), CaseList(MAX_CONTACTS) }

\* The comparison loop on the ContactSets of the party lists, computed once each.
PartyHashes(d) == { HashContactList(d, l).hashes : l \in PartyLists }
PartyMatchTable ==
    [ d \in DigestKinds |->
        [ a \in PartyHashes(d) |-> [ b \in PartyHashes(d) |-> MatchLoop(a, b) ] ] ]

\* hashContactList on both lists, the comparison loop, then resolveMatches on
\* the first party's list and match array.
CallResolveMatches(d, la, lb) ==
    LET setA == HashContactList(d, la)
        setB == HashContactList(d, lb)
        res == PartyMatchTable[d][setA.hashes][setB.hashes]
    IN  call' = [ op |-> "resolveMatches", digest |-> d, in |-> la, other |-> lb,
                  matched |-> res.alice_matches,
                  out |-> ResolveMatches(d, la, res.alice_matches) ]

\* hashContactList on a list, then resolveMatches on the same list and the
\* hashes just stored.
CallResolveOwn(d, contacts) ==
    LET set == HashContactList(d, contacts) IN
    call' = [ op |-> "resolveOwn", digest |-> d, in |-> contacts, set |-> set,
              out |-> ResolveMatches(d, contacts, set.hashes) ]

(***************************************************************************)
(* encryptContactHashes (arcium.ts).  A ciphertext of the Rescue cipher in *)
(* counter mode is determined by the key, the nonce, the position of the   *)
(* plaintext within the call and the plaintext.                            *)
(***************************************************************************)
CipherKeys == {"k1", "k2"}
Nonces == {"n1", "n2"}
NextNonce(n) == IF n = "n1" THEN "n2" ELSE "n1"

\* cipher.encrypt(plaintexts, nonce)
RescueEncrypt(cipher, plaintexts, nonce) ==
    [ k \in 1 .. Len(plaintexts) |->
        [ key |-> cipher, nonce |-> nonce, block |-> k - 1, plaintext |-> plaintexts[k] ] ]

\* The memory of one call: the arguments and the array being built.
EncryptStart(hashes, count, nonce) ==
    [ hashes |-> hashes, count |-> count, nonce |-> nonce, encryptedHashes |-> <<>> ]

EncryptSlotAdvanceNonce(cipher, mem, i) ==
    LET encrypted == RescueEncrypt(cipher, <<mem.hashes[i]>>, mem.nonce) IN
    [ mem EXCEPT !.encryptedHashes = Append(@, encrypted[1]),
                 !.nonce = NextNonce(@) ]

\* One iteration of the for loop.
EncryptSlot(cipher, mem, i) ==
    LET encrypted == RescueEncrypt(cipher, <<mem.hashes[i]>>, mem.nonce) IN
    [ mem EXCEPT !.encryptedHashes = Append(@, encrypted[1]) ]

RECURSIVE EncryptSlots(_, _, _)
EncryptSlots(cipher, mem, i) ==
    IF i = NUM_SLOTS THEN mem
    ELSE EncryptSlots(cipher, EncryptSlot(cipher, mem, i), i + 1)

EncryptContactHashes(cipher, hashes, count, nonce) ==
    LET mem == EncryptSlots(cipher, EncryptStart(hashes, count, nonce), 0)
        encCountResult == RescueEncrypt(cipher, <<mem.count>>, mem.nonce)
    IN  [ encryptedHashes |-> mem.encryptedHashes,
          encryptedCount |-> encCountResult[1],
          after |-> [ hashes |-> mem.hashes, count |-> mem.count, nonce |-> mem.nonce ] ]

\* The page encrypts the ContactSet hashContactList returned.
CallEncryptContactHashes(cipher, contacts, nonce) ==
    LET set == HashContactList("ideal", contacts) IN
    call' = [ op |-> "encryptContactHashes", cipher |-> cipher,
              hashes |-> set.hashes, count |-> set.count, nonce |-> nonce,
              out |-> EncryptContactHashes(cipher, set.hashes, set.count, nonce) ]

\* Lists of different sizes: empty, one entry, three, one short of capacity
\* and at capacity.
SizeLists ==
    { <<>>, << <<"a">> >>, ScenarioA, DistinctList(MAX_CONTACTS - 1),
      DistinctList(MAX_CONTACTS) }

\* What a submission carries of one encryptContactHashes call.
Payload(cipher, contacts, nonce) ==
    LET set == HashContactList("ideal", contacts)
        enc == EncryptContactHashes(cipher, set.hashes, set.count, nonce)
    IN  [ count |-> set.count, nonce |-> nonce,
          encryptedHashes |-> enc.encryptedHashes,
          encryptedCount |-> enc.encryptedCount ]

\* Two submissions encrypted with one cipher, each under its own nonce.
CallEncryptTwo(cipher, l1, n1, l2, n2) ==
    call' = [ op |-> "encryptTwo", cipher |-> cipher,
              first |-> Payload(cipher, l1, n1),
              second |-> Payload(cipher, l2, n2) ]

(***************************************************************************)
(* parseSessionAccount (program.ts).  A buffer is a sequence of bytes;     *)
(* JavaScript indices are zero-based and slice(start, end) excludes end.   *)
(***************************************************************************)
Slice(buf, start, end) == SubSeq(buf, start + 1, end)

AtOneBased(buf, i) == buf[i]

At(buf, i) == buf[i + 1]

SESSION_DISCRIMINATOR == <<74, 167, 182, 33, 211, 253, 207, 96>>
ACCOUNT_LEN == 106
KEY_LEN == 32

\* 32-byte values: all zero, or a run of consecutive byte values.
ZeroKey == [k \in 1 .. KEY_LEN |-> 0]
RunKey(first) == [k \in 1 .. KEY_LEN |-> (first + k) % 256]
PublicKeyOf(bytes) == [ bytes |-> bytes ]

\* The fields of a DiscoverySession record and its on-chain layout.
AccountFields ==
    [ sessionId : {RunKey(0), RunKey(240)},
      alice : {RunKey(32)},
      bob : {ZeroKey, RunKey(64)},
      status : {AwaitingAlice, AwaitingBob, Computing, Matched},
      bump : {254, 255} ]
Layout(f) ==
    SESSION_DISCRIMINATOR \o f.sessionId \o f.alice \o f.bob \o <<f.status, f.bump>>

\* The buffers parseSessionAccount is given: a record, a record cut short, and
\* a record followed by one more byte.
Cut(buf, n) == SubSeq(buf, 1, n)
BufferLens == {0, 8, ACCOUNT_LEN - 1, ACCOUNT_LEN, ACCOUNT_LEN + 1}
BufferOf(f, n) == IF n <= ACCOUNT_LEN THEN Cut(Layout(f), n) ELSE Append(Layout(f), 7)

Null == [ null |-> TRUE ]

ParseSessionAccount(data) ==
    IF Len(data) < ACCOUNT_LEN THEN Null
    ELSE LET accountData == Slice(data, 8, Len(data)) IN
         [ sessionId |-> Slice(accountData, 0, 32),
           alice |-> PublicKeyOf(Slice(accountData, 32, 64)),
           bob |-> PublicKeyOf(Slice(accountData, 64, 96)),
           status |-> At(accountData, 96),
           bump |-> At(accountData, 97) ]

CallParseSessionAccount(f, n) ==
    call' = [ op |-> "parseSessionAccount", fields |-> f, in |-> BufferOf(f, n),
              out |-> ParseSessionAccount(BufferOf(f, n)) ]

(***************************************************************************)
(* Session addressing (arcium.ts, program.ts, page.tsx).  A program        *)
(* derived address is determined by its seeds and the program id.          *)
(***************************************************************************)
PROGRAM_ID == "7RFXacB7U6bs3MnJYmue1EgPgbiUC9JsjbzWVDDPM64t"

HexChars == <<"0", "1", "2", "3", "4", "5", "6", "7", "8", "9",
              "a", "b", "c", "d", "e", "f">>
\* b.toString(16).padStart(2, "0")
ByteToHex(b) == <<HexChars[(b \div 16) + 1], HexChars[(b % 16) + 1]>>

\* .join("")
RECURSIVE Join(_)
Join(parts) == IF parts = <<>> THEN <<>> ELSE Head(parts) \o Join(Tail(parts))

\* String.prototype.slice(start, end) with end clamped to the length
SliceString(str, start, end) ==
    SubSeq(str, start + 1, IF end < Len(str) THEN end ELSE Len(str))

SessionIdToHex(sessionId) ==
    SliceString(Join([k \in 1 .. Len(sessionId) |-> ByteToHex(sessionId[k])]), 0, 16)

\* PublicKey.findProgramAddressSync(seeds, programId): [address, bump]
FindProgramAddressSync(seeds, programId) ==
    << [ seeds |-> seeds, program |-> programId ], 255 >>

\* arcium.ts
ArciumDeriveSessionPda(sessionId) ==
    FindProgramAddressSync(<<"session", sessionId>>, PROGRAM_ID)
\* program.ts
DeriveSessionPda(sessionId) ==
    FindProgramAddressSync(<<"session", sessionId>>, PROGRAM_ID)[1]

\* generateSessionId(): 32 random bytes.  Two of these agree on their first
\* eight bytes.
HeadTail(head, tail) == [k \in 1 .. KEY_LEN |-> IF k <= 8 THEN head ELSE tail]
SessionIds == { ZeroKey, RunKey(0), RunKey(240), HeadTail(171, 0), HeadTail(171, 205) }

\* handleCreateSession: the identifier shown for sharing and the address
\* derived for the new session.
CreatedSession(sessionId) ==
    [ id |-> SessionIdToHex(sessionId), sessionIdBytes |-> sessionId,
      sessionPda |-> ArciumDeriveSessionPda(sessionId)[1] ]

\* handleJoinSession: the session the second party's client holds after the
\* shared identifier was pasted, and the address derived from its bytes.
JoinedSession(sessionIdInput) ==
    [ id |-> Trim(sessionIdInput), sessionIdBytes |-> ZeroKey,
      sessionPda |-> ArciumDeriveSessionPda(ZeroKey)[1] ]

\* The first party creates a session; the second party pastes what the first
\* party's page displays.
CallShareSession(sessionId) ==
    LET created == CreatedSession(sessionId) IN
    call' = [ op |-> "shareSession", sessionId |-> sessionId,
              created |-> created, joined |-> JoinedSession(created.id) ]

(***************************************************************************)
(* Claims about hashContactList.                                           *)
(***************************************************************************)
HashCall == call.op = "hashContactList"
Accepted == HashCall /\ call.out.ok

\* The distinct non-empty normalized forms of a list.
NormalizedSet(l) == { NormalizeContact(l[k]) : k \in 1 .. Len(l) } \ {<<>>}
FirstIndex(l, u) ==
    CHOOSE k \in 1 .. Len(l) :
        /\ NormalizeContact(l[k]) = u
        /\ \A j \in 1 .. (k - 1) : NormalizeContact(l[j]) # u
\* How many distinct normalized forms are first seen before u.
FirstSeenRank(l, u) ==
    Cardinality({ v \in NormalizedSet(l) : FirstIndex(l, v) < FirstIndex(l, u) })

RawDistinct(l) == \A j, k \in 1 .. Len(l) : j # k => l[j] # l[k]
NormalizedDistinct(l) ==
    /\ \A k \in 1 .. Len(l) : NormalizeContact(l[k]) # <<>>
    /\ \A j, k \in 1 .. Len(l) : j # k => NormalizeContact(l[j]) # NormalizeContact(l[k])

\* Distinct normalized strings of the list have distinct non-zero fingerprints.
CollisionFree(d, l) ==
    \A u, v \in NormalizedSet(l) :
        /\ Sha256Upper128(d, u) # 0
        /\ u # v => Sha256Upper128(d, u) # Sha256Upper128(d, v)

\* C11 (as stated): a list of exactly 32 distinct identifiers is accepted with
\* count = 32 and all 32 slots populated (non-zero); a list of 33 identifiers
\* fails with an error and returns no ContactSet.
C11_CapacityBoundary ==
    HashCall =>
        /\ (Len(call.in) = MAX_CONTACTS /\ RawDistinct(call.in)) =>
              /\ call.out.ok
              /\ call.out.count = MAX_CONTACTS
              /\ \A k \in Slots : call.out.hashes[k] # 0
        /\ Len(call.in) = MAX_CONTACTS + 1 => ~call.out.ok

\* C11 (amended): a list of exactly 32 identifiers whose normalized forms are
\* non-empty and pairwise distinct is accepted with count = 32, slot i holding
\* the fingerprint of the i-th identifier (non-zero when fingerprints are
\* collision-free and non-zero); a list of 33 identifiers fails with an error
\* and returns no ContactSet.
C11_CapacityBoundaryNormalized ==
    HashCall =>
        /\ (Len(call.in) = MAX_CONTACTS /\ NormalizedDistinct(call.in)) =>
              /\ call.out.ok
              /\ call.out.count = MAX_CONTACTS
              /\ \A k \in Slots :
                    /\ call.out.hashes[k] =
                          Sha256Upper128(call.digest, NormalizeContact(call.in[k + 1]))
                    /\ CollisionFree(call.digest, call.in) => call.out.hashes[k] # 0
        /\ Len(call.in) = MAX_CONTACTS + 1 =>
              (~call.out.ok /\ DOMAIN call.out = {"ok", "error"})

\* A list of exactly 32 identifiers with distinct normalized forms was
\* accepted and filled every slot.
C11_Witness ==
    /\ HashCall
    /\ call.in = DistinctList(MAX_CONTACTS)
    /\ call.digest = "ideal"
    /\ call.out.ok
    /\ call.out.count = MAX_CONTACTS
    /\ \A k \in Slots : call.out.hashes[k] # 0

\* C13: every list of at most 32 entries is accepted; the result has exactly 32
\* slots and a count in 0..32 equal to the number of distinct non-empty
\* normalized inputs; slot i < count holds the fingerprint of the i-th distinct
\* normalized string in first-seen order; every slot from count on is zero.
C13_ContactSetShape ==
    HashCall =>
        /\ Len(call.in) <= MAX_CONTACTS => call.out.ok
        /\ call.out.ok =>
              /\ DOMAIN call.out.hashes = Slots
              /\ call.out.count \in 0 .. MAX_CONTACTS
              /\ call.out.count = Cardinality(NormalizedSet(call.in))
              /\ \A u \in NormalizedSet(call.in) :
                    call.out.hashes[FirstSeenRank(call.in, u)] =
                        Sha256Upper128(call.digest, u)
              /\ \A k \in Slots : k >= call.out.count => call.out.hashes[k] = 0

\* A list with a blank entry and a non-blank one: the blank is dropped and
\* the other entry's fingerprint sits in slot 0.
C13_Witness ==
    /\ Accepted
    /\ call.in = << <<" ">>, <<"5">> >>
    /\ call.out.count = 1
    /\ call.out.hashes[0] = Sha256Upper128(call.digest, <<"+", "1", "5">>)
    /\ call.out.hashes[1] = 0

PopulatedSlotsReal ==
    /\ \A k \in Slots : k < call.out.count => call.out.hashes[k] # 0
    /\ \A j, k \in Slots :
          (j < call.out.count /\ k < call.out.count /\ j # k)
              => call.out.hashes[j] # call.out.hashes[k]

C22_RawLengthCapacity ==
    HashCall =>
        /\ call.out.ok <=> Len(call.in) <= MAX_CONTACTS
        /\ Len(call.in) > MAX_CONTACTS =>
              /\ call.out = [ ok |-> FALSE, error |-> "Maximum 32 contacts allowed" ]
              /\ call.hashed = 0

\* 33 copies of one contact, a single identifier after deduplication, were
\* rejected.
C22_Witness ==
    /\ HashCall
    /\ call.in = CopiesList(MAX_CONTACTS + 1)
    /\ Cardinality(NormalizedSet(call.in)) = 1
    /\ ~call.out.ok
    /\ call.hashed = 0

(***************************************************************************)
(* Claims about normalization inside hashContactList.                      *)
(***************************************************************************)
PairCall == HashCall /\ Len(call.in) = 2

Blank(x) == \A k \in 1 .. Len(x) : x[k] = " "
\* x without its surrounding whitespace.
Core(x) ==
    IF Blank(x) THEN <<>>
    ELSE LET inked == { k \in 1 .. Len(x) : x[k] # " " }
             first == CHOOSE k \in inked : \A j \in inked : k <= j
             last == CHOOSE k \in inked : \A j \in inked : k >= j
         IN  [ k \in 1 .. (last - first + 1) |-> x[first + k - 1] ]
Fold(c) == IF c = "A" THEN "a" ELSE c
SameButCaseAndMargin(x, y) ==
    /\ Len(Core(x)) = Len(Core(y))
    /\ \A k \in 1 .. Len(Core(x)) : Fold(Core(x)[k]) = Fold(Core(y)[k])

\* Only digits, whitespace, '-', '+', '(' and ')'.
PhoneLike(x) == \A k \in 1 .. Len(x) : x[k] \in PhoneChars
Punctuation == {" ", "-", "(", ")"}
IsInk(c) == c \notin Punctuation
Unpunctuated(x) == SelectSeq(x, IsInk)
SameButPunctuation(x, y) ==
    PhoneLike(x) /\ PhoneLike(y) /\ Unpunctuated(x) = Unpunctuated(y)
\* y is x without its leading "+1".
SameButCountryCode(x, y) ==
    /\ PhoneLike(x) /\ PhoneLike(y)
    /\ (Unpunctuated(y) = <<>> \/ Unpunctuated(y)[1] # "+")
    /\ Unpunctuated(x) = <<"+", "1">> \o Unpunctuated(y)
Equivalent(x, y) ==
    \/ SameButCaseAndMargin(x, y)
    \/ SameButPunctuation(x, y)
    \/ SameButCountryCode(x, y) \/ SameButCountryCode(y, x)

OneSlot ==
    /\ NormalizeContact(call.in[1]) = NormalizeContact(call.in[2])
    /\ call.out.count = 1
    /\ call.out.hashes[0] = HashContact(call.digest, call.in[1])
    /\ call.out.hashes[0] = HashContact(call.digest, call.in[2])
    /\ \A k \in Slots : k > 0 => call.out.hashes[k] = 0
PhoneForm(n) ==
    /\ n # <<>> /\ n[1] = "+"
    /\ \A k \in 1 .. Len(n) : n[k] \in Digits \cup {"+"}

\* C23 (as stated): two raw identifiers that differ only in letter case or
\* surrounding whitespace, or, when made only of digits, whitespace, '-', '+',
\* '(' and ')', only in that punctuation or in a missing leading "+1", normalize
\* to the same string and occupy a single slot with a single fingerprint; the
\* normalized form of every input made only of those characters starts with '+'
\* and contains only digits and '+'.
C23_NormalizationEquivalence ==
    PairCall =>
        /\ Equivalent(call.in[1], call.in[2]) => OneSlot
        /\ \A k \in 1 .. 2 :
              PhoneLike(call.in[k]) => PhoneForm(NormalizeContact(call.in[k]))

\* C23 (amended): the same for identifiers that are not blank: two non-blank
\* identifiers that differ only in case, surrounding whitespace, phone
\* punctuation or a missing leading "+1" share one normalized string, one slot
\* and one fingerprint, and the normalized form of a non-blank phone-like
\* input starts with '+' and contains only digits and '+'.
C23_NormalizationEquivalenceNonBlank ==
    PairCall =>
        /\ (Equivalent(call.in[1], call.in[2])
             /\ ~Blank(call.in[1]) /\ ~Blank(call.in[2])) => OneSlot
        /\ \A k \in 1 .. 2 :
              (PhoneLike(call.in[k]) /\ ~Blank(call.in[k]))
                  => PhoneForm(NormalizeContact(call.in[k]))

\* A punctuated number without country code and the same number written with
\* "+1" went into one slot.
C23_Witness ==
    /\ PairCall
    /\ call.in = << <<"-", "5", " ">>, <<"+", "1", "5">> >>
    /\ SameButCountryCode(call.in[2], call.in[1])
    /\ call.out.count = 1
    /\ call.out.hashes[0] = Sha256Upper128(call.digest, <<"+", "1", "5">>)

(***************************************************************************)
(* Claims about result resolution.                                         *)
(***************************************************************************)
ResolveCall == call.op = "resolveMatches"

NormalizedForms(l) == { NormalizeContact(l[k]) : k \in 1 .. Len(l) }

\* Distinct normalized strings of both lists have distinct non-zero
\* fingerprints.
FingerprintsIdeal(d, la, lb) ==
    \A u, v \in NormalizedForms(la) \cup NormalizedForms(lb) :
        /\ Sha256Upper128(d, u) # 0
        /\ u # v => Sha256Upper128(d, u) # Sha256Upper128(d, v)

InOther(contact) == NormalizeContact(contact) \in NormalizedForms(call.other)
InOtherNonBlank(contact) ==
    NormalizeContact(contact) \in (NormalizedForms(call.other) \ {<<>>})

\* C15 (as stated): with distinct non-zero fingerprints for distinct normalized
\* strings, hashContactList on both lists, the comparison loop and
\* resolveMatches return exactly the entries of L_A whose normalized form
\* equals the normalized form of some entry of L_B, in L_A's order.
C15_EndToEnd ==
    (ResolveCall /\ FingerprintsIdeal(call.digest, call.in, call.other))
        => call.out = SelectSeq(call.in, InOther)

\* C15 (amended): under the same assumption the result is exactly the entries
\* of L_A whose normalized form is non-empty and equals the normalized form of
\* some entry of L_B, in L_A's order.
C15_EndToEndNonBlank ==
    (ResolveCall /\ FingerprintsIdeal(call.digest, call.in, call.other))
        => call.out = SelectSeq(call.in, InOtherNonBlank)

\* The partial-overlap scenario: three entries each, only the phone number
\* shared; resolution on the first party recovers exactly that entry.
C15_Witness ==
    /\ ResolveCall
    /\ call.in = ScenarioA
    /\ call.other = ScenarioB
    /\ FingerprintsIdeal(call.digest, call.in, call.other)
    /\ call.out = << <<"+", "5">> >>

OwnCall == call.op = "resolveOwn"
NonBlankForm(c) == NormalizeContact(c) # <<>>
Resolvable(c) == NonBlankForm(c) /\ HashContact(call.digest, c) # 0

\* hashContact of every entry with a non-empty normalized form is the
\* fingerprint hashContactList stored for it, in the slot of its normalized
\* form's first-seen rank, below count.
StoredFingerprints ==
    \A k \in 1 .. Len(call.in) :
        NonBlankForm(call.in[k]) =>
            LET slot == FirstSeenRank(call.in, NormalizeContact(call.in[k])) IN
            /\ slot < call.set.count
            /\ call.set.hashes[slot] = HashContact(call.digest, call.in[k])
            /\ call.set.hashes[slot] =
                  Sha256Upper128(call.digest,
                                 NormalizeContact(NormalizeContact(call.in[k])))

EncryptCall == call.op = "encryptContactHashes"

\* The ciphertext of p encrypted alone under the call's key and nonce.
AloneUnderCallNonce(ct, p) ==
    ct = [ key |-> call.cipher, nonce |-> call.nonce, block |-> 0, plaintext |-> p ]

\* C16: encryptContactHashes returns exactly 32 slot ciphertexts, the i-th
\* being hashes[i] encrypted alone, and one ciphertext of the count, all 33
\* under the nonce passed in; hashes, count and nonce are left unmodified.
C16_EncryptShape ==
    EncryptCall =>
        /\ Len(call.out.encryptedHashes) = NUM_SLOTS
        /\ \A i \in Slots :
              AloneUnderCallNonce(call.out.encryptedHashes[i + 1], call.hashes[i])
        /\ AloneUnderCallNonce(call.out.encryptedCount, call.count)
        /\ call.out.after =
              [ hashes |-> call.hashes, count |-> call.count, nonce |-> call.nonce ]

\* A ContactSet with populated and empty slots was encrypted: slot 0 carries
\* a fingerprint, slot 31 the zero sentinel, both under the same nonce.
C16_Witness ==
    /\ EncryptCall
    /\ call.count = 2
    /\ call.out.encryptedHashes[1].plaintext # 0
    /\ call.out.encryptedHashes[NUM_SLOTS].plaintext = 0
    /\ call.out.encryptedHashes[1].nonce = call.out.encryptedHashes[NUM_SLOTS].nonce
    /\ call.out.encryptedCount.plaintext = 2

\* The 33 ciphertexts of a payload in wire order, and which of them are equal
\* to one another: all an observer without the key can compare.
Ciphertexts(payload) == Append(payload.encryptedHashes, payload.encryptedCount)
EqualityPattern(payload) ==
    { p \in (1 .. (NUM_SLOTS + 1)) \X (1 .. (NUM_SLOTS + 1)) :
        Ciphertexts(payload)[p[1]] = Ciphertexts(payload)[p[2]] }

\* C29: for two ContactSets with different counts encrypted by
\* encryptContactHashes, the pattern of which slot ciphertexts and count
\* ciphertext are equal to one another is the same, so the payload does not
\* tell how many slots are zero padding.
C29_PayloadHidesSize ==
    (call.op = "encryptTwo" /\ call.first.count # call.second.count)
        => EqualityPattern(call.first) = EqualityPattern(call.second)

(***************************************************************************)
(* Claims about parseSessionAccount.                                       *)
(***************************************************************************)
ParseCall == call.op = "parseSessionAccount"

\* Bytes first..last of the buffer, zero-based and inclusive.
Bytes(buf, first, last) == [k \in 1 .. (last - first + 1) |-> buf[first + k]]

\* C19: parseSessionAccount returns null for every buffer shorter than 106
\* bytes; for a 106-byte record it returns sessionId = bytes 8..39, alice =
\* bytes 40..71, bob = bytes 72..103, status = byte 104 and bump = byte 105,
\* so parsing the fixed layout of a record recovers each field exactly.
C19_ParseLayout ==
    ParseCall =>
        /\ Len(call.in) < 106 => call.out = Null
        /\ Len(call.in) = 106 =>
              /\ call.out # Null
              /\ call.out.sessionId = Bytes(call.in, 8, 39)
              /\ call.out.alice = PublicKeyOf(Bytes(call.in, 40, 71))
              /\ call.out.bob = PublicKeyOf(Bytes(call.in, 72, 103))
              /\ call.out.status = call.in[105]
              /\ call.out.bump = call.in[106]
              /\ call.out.sessionId = call.fields.sessionId
              /\ call.out.alice = PublicKeyOf(call.fields.alice)
              /\ call.out.bob = PublicKeyOf(call.fields.bob)
              /\ call.out.status = call.fields.status
              /\ call.out.bump = call.fields.bump

\* A 106-byte record of a Matched session with both parties present was
\* parsed into its fields.
C19_Witness ==
    /\ ParseCall
    /\ Len(call.in) = 106
    /\ call.fields.bob # ZeroKey
    /\ call.out # Null
    /\ call.out.status = Matched
    /\ call.out.bob = PublicKeyOf(call.fields.bob)
    /\ call.out.bump = 255

(***************************************************************************)
(* Claims about session addressing.                                        *)
(***************************************************************************)
ShareCall == call.op = "shareSession"

\* C20: the identifier the first party's client displays determines the full
\* 32-byte session identifier; the second party who pastes it derives the same
\* session record address as the first party; and the two deriveSessionPda
\* implementations return the same address for the same identifier.
C20_AddressReproducible ==
    ShareCall =>
        /\ \A other \in SessionIds :
              SessionIdToHex(other) = call.created.id => other = call.sessionId
        /\ call.joined.sessionPda = call.created.sessionPda
        /\ ArciumDeriveSessionPda(call.sessionId)[1] = DeriveSessionPda(call.sessionId)

UtilInit == UtilIdle /\ ClientIdle /\ SessionIdle /\ LoopIdle

\* The caller takes the result: the next call starts from the idle state.
Return ==
    /\ call # NoCall
    /\ call' = NoCall

UtilNext ==
    \/ /\ UtilIdle
       /\ \E x \in Strings :
             /\ CallNormalizeContact(x)
             /\ UNCHANGED <<loopVars, sessionVars, clientVars>>
    \/ /\ UtilIdle
       /\ \E d \in DigestKinds, l \in ContactLists :
             /\ CallHashContactList(d, l)
             /\ UNCHANGED <<loopVars, sessionVars, clientVars>>
    \/ /\ UtilIdle
       /\ \E x \in Strings, y \in PairSamples :
             /\ CallHashContactList("ideal", <<x, y>>)
             /\ UNCHANGED <<loopVars, sessionVars, clientVars>>
    \/ /\ UtilIdle
       /\ \E d \in DigestKinds, la \in PartyLists, lb \in PartyLists :
             /\ CallResolveMatches(d, la, lb)
             /\ UNCHANGED <<loopVars, sessionVars, clientVars>>
    \/ /\ UtilIdle
       /\ \E d \in DigestKinds, l \in ContactLists :
             /\ Len(l) <= MAX_CONTACTS
             /\ CallResolveOwn(d, l)
             /\ UNCHANGED <<loopVars, sessionVars, clientVars>>
    \/ /\ UtilIdle
       /\ \E k \in CipherKeys, l \in PartyLists, n \in Nonces :
             /\ Len(l) <= MAX_CONTACTS
             /\ CallEncryptContactHashes(k, l, n)
             /\ UNCHANGED <<loopVars, sessionVars, clientVars>>
    \/ /\ UtilIdle
       /\ \E k \in CipherKeys, l1 \in SizeLists, l2 \in SizeLists, n1 \in Nonces, n2 \in Nonces :
             /\ CallEncryptTwo(k, l1, n1, l2, n2)
             /\ UNCHANGED <<loopVars, sessionVars, clientVars>>
    \/ /\ UtilIdle
       /\ \E f \in AccountFields, n \in BufferLens :
             /\ CallParseSessionAccount(f, n)
             /\ UNCHANGED <<loopVars, sessionVars, clientVars>>
    \/ /\ UtilIdle
       /\ \E id \in SessionIds :
             /\ CallShareSession(id)
             /\ UNCHANGED <<loopVars, sessionVars, clientVars>>
    \/ Return /\ UNCHANGED <<loopVars, sessionVars, clientVars>>

SpecUtils == UtilInit /\ [][UtilNext]_vars

====
